---- MODULE Spec2Model ----
(***************************************************************************)
(* A model of the Papercups browser session orchestrator (class Papercups): *)
(* identity resolution at start(), conversation resolution, the channel     *)
(* lifecycle, optimistic sends and the reconciliation of server events.     *)
(* Every awaited backend call is a suspension point: the call is a record   *)
(* in flight, and its completion (success or failure) is a separate action. *)
(***************************************************************************)
EXTENDS Integers, Sequences, FiniteSets, TLC

(* ---------------------------- bounds ----------------------------------- *)
MaxSends == 2       \* sendNewMessage calls with a valid message
MaxClock == 2       \* distinct millisecond readings of new Date()
MaxAgent == 1       \* messages written by an agent on the server side

(* ---------------------------- values ----------------------------------- *)
NULL == "null"                          \* null / undefined
CustomerIdPool == <<"c1", "c2", "c3", "c4", "c5">>      \* well-formed uuids
ConversationIdPool == <<"v1", "v2", "v3", "v4", "v5">>
MalformedId == "not-a-uuid"
NoTime == 0                             \* an absent created_at / seen_at
NoDate == [ms |-> 0, fmt |-> "none"]    \* an absent sent_at

\* new Date().toISOString() at clock reading t
toISOString(t) == [ms |-> t, fmt |-> "iso"]

\* +new Date(x): the numeric timestamp of a date string; NaN for undefined
NaN == -1
Timestamp(x) == IF x.fmt = "none" THEN NaN ELSE x.ms

\* utils.areDatesEqual: equality of the two timestamps (NaN equals nothing)
areDatesEqual(x, y) ==
    /\ Timestamp(x) # NaN
    /\ Timestamp(y) # NaN
    /\ Timestamp(x) = Timestamp(y)

isValidUuid(id) == \E i \in 1..Len(CustomerIdPool) : CustomerIdPool[i] = id

Range(s) == {s[i] : i \in 1..Len(s)}
RemoveAt(s, i) == SubSeq(s, 1, i - 1) \o SubSeq(s, i + 1, Len(s))

(* ---------------------------- messages --------------------------------- *)
\* type Message: body, file_ids, type, customer_id, sent_at, created_at, seen_at
Message(type, body, files, customer, sent, created, seen) ==
    [type |-> type, body |-> body, file_ids |-> files, customer_id |-> customer,
     sent_at |-> sent, created_at |-> created, seen_at |-> seen]

\* !m.created_at
isPending(m) == m.created_at = NoTime

\* the index of the first entry satisfying the predicate of messages.find, 0 if none
FindUnsent(messages, message) ==
    LET hits == {i \in 1..Len(messages) :
                    /\ isPending(messages[i])
                    /\ areDatesEqual(messages[i].sent_at, message.sent_at)
                    /\ (\/ messages[i].body = message.body
                        \/ (messages[i].body = "" /\ message.body = ""))}
    IN IF hits = {} THEN 0 ELSE CHOOSE i \in hits : \A j \in hits : i <= j

\* a reconciliation that looks at the send timestamp alone
handleMessageCreated_TimestampOnly(messages, message) ==
    LET hits == {i \in 1..Len(messages) :
                    /\ isPending(messages[i])
                    /\ areDatesEqual(messages[i].sent_at, message.sent_at)}
    IN IF hits # {}
       THEN [i \in 1..Len(messages) |->
                IF i \in hits THEN message ELSE messages[i]]
       ELSE Append(messages, message)

\* handleMessageCreated: the transcript it hands to setMessages
handleMessageCreated(messages, message) ==
    LET u == FindUnsent(messages, message)
    IN IF u # 0
       THEN [i \in 1..Len(messages) |->
                IF messages[i].sent_at = messages[u].sent_at THEN message
                                                             ELSE messages[i]]
       ELSE Append(messages, message)

(* ---------------------------- greeting --------------------------------- *)
EmptySettings == [greeting |-> NULL, away_message |-> NULL, outside |-> FALSE]
\* what the backend answers to fetchWidgetSettings when it answers
ServerSettings ==
    {[greeting |-> "hello", away_message |-> "away", outside |-> FALSE]}

\* x || y on optional strings
OrElse(x, y) == IF x # NULL /\ x # "" THEN x ELSE y
Falsy(x) == x = NULL \/ x = ""

\* the overrides argument of getDefaultGreeting: {} or {created_at, seen_at}
NoOverrides == [given |-> FALSE, created_at |-> NoTime, seen_at |-> NoTime]
Overrides(created, seen) ==
    [given |-> TRUE, created_at |-> created, seen_at |-> seen]

\* getDefaultGreeting, no setInitialMessage configured. The spread of the
\* overrides replaces created_at also when the override is undefined.
getDefaultGreeting(cfg, stg, overrides, clock) ==
    LET greeting == OrElse(cfg.greeting, stg.greeting)
        awayMessage == OrElse(cfg.awayMessage, stg.away_message)
        hasAwayMessage == ~Falsy(awayMessage)
        isOutsideWorkingHours == stg.outside
        shouldDisplayAwayMessage == hasAwayMessage /\ isOutsideWorkingHours
    IN IF Falsy(greeting) /\ Falsy(awayMessage)
       THEN <<>>
       ELSE << Message("bot",
                       IF shouldDisplayAwayMessage THEN awayMessage ELSE greeting,
                       FALSE, "bot", NoDate,
                       IF overrides.given THEN overrides.created_at ELSE clock,
                       IF overrides.given THEN overrides.seen_at ELSE NoTime) >>

(* ---------------------------- sorting ---------------------------------- *)
\* Array.prototype.sort by created_at ascending (stable)
RECURSIVE InsertSorted(_, _)
InsertSorted(sorted, m) ==
    IF sorted = <<>> THEN <<m>>
    ELSE IF sorted[Len(sorted)].created_at <= m.created_at
         THEN Append(sorted, m)
         ELSE Append(InsertSorted(SubSeq(sorted, 1, Len(sorted) - 1), m),
                     sorted[Len(sorted)])

RECURSIVE SortByCreatedAt(_)
SortByCreatedAt(ms) ==
    IF ms = <<>> THEN <<>>
    ELSE InsertSorted(SortByCreatedAt(SubSeq(ms, 1, Len(ms) - 1)), ms[Len(ms)])

Reverse(s) == [i \in 1..Len(s) |-> s[Len(s) + 1 - i]]

(* ---------------------------- state ------------------------------------ *)
VARIABLES
    config,          \* Config: customerId, customer.external_id, greeting, awayMessage
    storage,         \* the identity cache: the cached customer id or NULL
    customerId,      \* this.customerId
    conversationId,  \* this.conversationId
    messages,        \* this.messages, the transcript
    settings,        \* this.settings
    channel,         \* this.channel: NoChannel or a channel object [ref, topic]
    joined,          \* the conversation channel objects joined and not left
    connected,       \* the socket is connected
    tornDown,        \* disconnect() has been called
    startTask,       \* the position of start() and its locals
    sends,           \* the sendNewMessage calls made so far, each with its position
    fetches,         \* fetchLatestConversation calls awaiting the backend
    lobbies,         \* the lobby channels joined (the customer id of each)
    lobbyEvents,     \* 'conversation:created' events on their way to the client
    timers,          \* setTimeout callbacks pending (the customer id of each)
    srvConvs,        \* backend: the conversations, oldest first
    srvCustomers,    \* backend: how many customers it has created
    srvFmt,          \* backend: how it prints a sent_at it echoes
    pushes,          \* 'shout' pushes on their way to the backend
    shouts,          \* 'shout' broadcasts on their way to the client
    now,             \* the clock, in milliseconds
    handed,          \* the transcript last given to config.onMessagesUpdated
    observed         \* what the session's surroundings have seen of it: the
                     \* cached id the constructor read, the details of the
                     \* 'papercups:customer:set' events, the arguments of
                     \* config.onSetCustomerId, the sends that returned at once

vars == <<config, storage, customerId, conversationId, messages, settings,
          channel, joined, connected, tornDown, startTask, sends, fetches,
          lobbies, lobbyEvents, timers, srvConvs, srvCustomers, srvFmt,
          pushes, shouts, now, handed, observed>>

NoChannel == [ref |-> 0, topic |-> NULL]
NoMessage == Message(NULL, "", FALSE, NULL, NoDate, NoTime, NoTime)

\* nothing has been handed to config.onMessagesUpdated yet
NotHanded == <<NoMessage>>

(* ---------------------------- construction ----------------------------- *)
\* <<config.customerId, the cached customer id>> of the sessions explored
InitialIdentities ==
    {<<NULL, NULL>>, <<NULL, "c1">>, <<MalformedId, "c1">>, <<"c2", "c1">>,
     <<NULL, MalformedId>>}

\* a conversation the customer "c1" had before this session: two confirmed
\* messages, created before the session's clock starts
PriorConversation ==
    [customer |-> "c1",
     messages |-> << Message("customer", "x", FALSE, "c1",
                             [ms |-> 1, fmt |-> "iso"], 1, NoTime),
                     Message("agent", "y", FALSE, NULL, NoDate, 2, NoTime) >>]

IdleStart == [pc |-> "idle", settings |-> EmptySettings, arg |-> NULL,
              result |-> NULL]

\* constructor: customerId || getCachedCustomerId() || null, for the
\* configurations, cached ids and backends given
Constructed(identities, externalIds, backends, formats) ==
    /\ \E id \in identities, ext \in externalIds :
          /\ config = [customerId |-> id[1], external_id |-> ext,
                       greeting |-> NULL, awayMessage |-> NULL]
          /\ storage = id[2]
          /\ customerId = OrElse(id[1], OrElse(id[2], NULL))
    /\ conversationId = NULL
    /\ messages = <<>>
    /\ settings = EmptySettings
    /\ channel = NoChannel
    /\ joined = {}
    /\ connected = FALSE
    /\ tornDown = FALSE
    /\ startTask = IdleStart
    /\ sends = <<>>
    /\ fetches = <<>>
    /\ lobbies = <<>>
    /\ lobbyEvents = <<>>
    /\ timers = <<>>
    /\ srvConvs \in backends
    /\ srvCustomers = 2
    /\ srvFmt \in formats
    /\ pushes = <<>>
    /\ shouts = <<>>
    /\ now = 3
    /\ handed = NotHanded
    /\ observed = [cached |-> storage, dispatched |-> <<>>,
                   onSetCustomerId |-> <<>>, returned |-> FALSE]

\* a session of a returning customer (cached id "c1"), with and without a
\* conversation from before
Init == Constructed({<<NULL, "c1">>}, {NULL}, {<<>>, <<PriorConversation>>},
                    {"iso", "srv"})

(* ---------------------------- setters ---------------------------------- *)
\* a cache that is not cleared when the id is null
cacheCustomerId_KeptOnNull(id) == IF Falsy(id) THEN storage ELSE id

\* cacheCustomerId: what the identity cache holds afterwards
cacheCustomerId(id) == IF Falsy(id) THEN NULL ELSE id

\* a join that does not leave the channel joined before
joinConversationChannel_NoLeave(chan, jnd, conversation) ==
    LET used == {c.ref : c \in jnd}
        ref == CHOOSE r \in 1..(Cardinality(used) + 1) : r \notin used
        new == [ref |-> ref, topic |-> conversation]
    IN <<new, jnd \cup {new}>>

\* joinConversationChannel: leave this.channel if there is one, create the
\* channel of the conversation and join it. Gives <<this.channel, joined>>.
joinConversationChannel(chan, jnd, conversation) ==
    LET afterLeave == IF chan # NoChannel THEN jnd \ {chan} ELSE jnd
        used == {c.ref : c \in afterLeave}
        ref == CHOOSE r \in 1..(Cardinality(used) + 1) : r \notin used
        new == [ref |-> ref, topic |-> conversation]
    IN <<new, afterLeave \cup {new}>>

\* setMessages: replace the transcript and hand it to config.onMessagesUpdated
setMessages(transcript) ==
    /\ messages' = transcript
    /\ handed' = transcript

\* setCustomerId: store the id, cache it (or clear the cache), dispatch
\* 'papercups:customer:set' with it and call config.onSetCustomerId with it
setCustomerId(id) ==
    /\ customerId' = id
    /\ storage' = cacheCustomerId(id)
    /\ observed' = [observed EXCEPT !.dispatched = Append(@, id),
                                    !.onSetCustomerId = Append(@, id)]

(* ---------------------------- backend ---------------------------------- *)
\* the index in srvConvs of a conversation id
ConversationIndex(id) ==
    CHOOSE i \in 1..Len(ConversationIdPool) : ConversationIdPool[i] = id

\* fetchLatestCustomerConversation: the customer's most recent conversation,
\* 0 when it has none
LatestConversation(convs, customer) ==
    LET own == {i \in 1..Len(convs) : convs[i].customer = customer}
    IN IF own = {} THEN 0 ELSE CHOOSE i \in own : \A j \in own : j <= i

(* ---------------------------- start() ---------------------------------- *)
sessionVars == <<customerId, conversationId, messages, handed, settings, storage>>
channelVars == <<channel, joined>>
socketVars == <<connected, tornDown>>
lobbyVars == <<lobbies, lobbyEvents, timers>>
serverVars == <<srvConvs, srvCustomers, srvFmt, pushes, shouts>>

\* start() has settled: resolved with a result, or rejected
StartSettled(pc, result) ==
    [pc |-> pc, settings |-> EmptySettings, arg |-> NULL, result |-> result]

\* a start whose resolution leaves the transcript alone without a customer
StartApply_NoGreeting(stg, cid) ==
    /\ settings' = stg
    /\ setCustomerId(cid)
    /\ UNCHANGED <<messages, handed>>
    /\ IF Falsy(cid)
       THEN /\ fetches' = fetches
            /\ startTask' = StartSettled("resolved", NULL)
       ELSE /\ fetches' = Append(fetches, [customerId |-> cid, origin |-> "start"])
            /\ startTask' = [IdleStart EXCEPT !.pc = "fetch"]
    /\ UNCHANGED conversationId

\* start, lines 73-75: setWidgetSettings(settings).setCustomerId(customerId)
\* .fetchLatestConversation(customerId), up to the first await of the latter
StartApply(stg, cid) ==
    /\ settings' = stg
    /\ setCustomerId(cid)
    /\ IF Falsy(cid)
       THEN /\ setMessages(getDefaultGreeting(config, stg, NoOverrides, now))
            /\ fetches' = fetches
            /\ startTask' = StartSettled("resolved", NULL)
       ELSE /\ UNCHANGED <<messages, handed>>
            /\ fetches' = Append(fetches, [customerId |-> cid, origin |-> "start"])
            /\ startTask' = [IdleStart EXCEPT !.pc = "fetch"]
    /\ UNCHANGED conversationId

\* checkForExistingCustomer up to its await: without an external id the
\* candidate is the result, otherwise the backend lookup is issued
StartCheckForExistingCustomer(stg, validated) ==
    IF Falsy(config.external_id)
    THEN StartApply(stg, validated)
    ELSE /\ startTask' = [startTask EXCEPT !.pc = "lookup", !.settings = stg,
                                           !.arg = validated]
         /\ UNCHANGED <<sessionVars, fetches, observed>>

\* start(): connect() and the call of fetchWidgetSettings
start ==
    /\ startTask.pc = "idle"
    /\ ~tornDown
    /\ connected' = TRUE
    /\ startTask' = [startTask EXCEPT !.pc = "settings"]
    /\ UNCHANGED <<config, observed, sessionVars, channelVars, tornDown, sends, fetches,
                   lobbyVars, serverVars, now>>

\* fetchWidgetSettings settles with stg (a failure or an empty answer gives
\* the empty record), then isValidCustomerId up to its await
start_fetchWidgetSettings(stg) ==
    /\ startTask.pc = "settings"
    /\ IF Falsy(customerId) \/ ~isValidUuid(customerId)
       THEN StartCheckForExistingCustomer(stg, NULL)
       ELSE /\ startTask' = [startTask EXCEPT !.pc = "validate",
                                              !.settings = stg,
                                              !.arg = customerId]
            /\ UNCHANGED <<sessionVars, fetches, observed>>
    /\ UNCHANGED <<config, channelVars, socketVars, sends, lobbyVars,
                   serverVars, now>>

\* a validation whose failing call discards the id
start_isValidCustomer_ErrorInvalid(outcome) ==
    /\ startTask.pc = "validate"
    /\ StartCheckForExistingCustomer(
           startTask.settings, IF outcome = "true" THEN customerId ELSE NULL)
    /\ UNCHANGED <<config, channelVars, socketVars, sends, lobbyVars,
                   serverVars, now>>

\* API.isValidCustomer settles: true, false, or an error (taken as valid)
start_isValidCustomer(outcome) ==
    /\ startTask.pc = "validate"
    /\ StartCheckForExistingCustomer(
           startTask.settings, IF outcome # "false" THEN customerId ELSE NULL)
    /\ UNCHANGED <<config, channelVars, socketVars, sends, lobbyVars,
                   serverVars, now>>

\* a lookup whose match gives way to the candidate
MatchingCustomer_CandidateWins(matchingCustomerId, defaultCustomerId) ==
    IF Falsy(matchingCustomerId) THEN NULL
    ELSE IF ~Falsy(defaultCustomerId) THEN defaultCustomerId
    ELSE matchingCustomerId

\* checkForExistingCustomer, lines 359-368, for the id the lookup gave
MatchingCustomer(matchingCustomerId, defaultCustomerId) ==
    IF Falsy(matchingCustomerId) THEN NULL
    ELSE IF matchingCustomerId = defaultCustomerId THEN defaultCustomerId
    ELSE matchingCustomerId

\* API.findCustomerByExternalId settles: a customer id, none, or an error,
\* which nothing catches before it leaves start()
start_findCustomerByExternalId(outcome) ==
    /\ startTask.pc = "lookup"
    /\ IF outcome = "error"
       THEN /\ startTask' = StartSettled("rejected", NULL)
            /\ UNCHANGED <<sessionVars, fetches, observed>>
       ELSE StartApply(startTask.settings,
                       MatchingCustomer(outcome, startTask.arg))
    /\ UNCHANGED <<config, channelVars, socketVars, sends, lobbyVars,
                   serverVars, now>>

(* ---------------------------- fetchLatestConversation ------------------ *)
\* start() resolves with what its fetchLatestConversation returns
FetchReturns(task, result) ==
    IF task.origin = "start"
    THEN startTask' = StartSettled("resolved", result)
    ELSE startTask' = startTask

\* the orders in which the backend may list a conversation's messages
ResponseOrders(ms) == {ms, Reverse(ms)}

\* a transcript that keeps the messages in the order of the response
ConversationTranscript_AsListed(cfg, stg, listed, clock) ==
    LET initialMessageCreatedAt ==
            IF listed = <<>> THEN NoTime ELSE listed[1].created_at
    IN getDefaultGreeting(cfg, stg,
                          Overrides(initialMessageCreatedAt,
                                    initialMessageCreatedAt), clock)
       \o listed

\* lines 581-594: the transcript made of a conversation's messages
ConversationTranscript(cfg, stg, listed, clock) ==
    LET formattedMessages == SortByCreatedAt(listed)
        initialMessageCreatedAt ==
            IF formattedMessages = <<>> THEN NoTime
            ELSE formattedMessages[1].created_at
    IN getDefaultGreeting(cfg, stg,
                          Overrides(initialMessageCreatedAt,
                                    initialMessageCreatedAt), clock)
       \o formattedMessages

\* lines 597-599: the catch block of fetchLatestConversation. It logs; the
\* transcript and the identities are left as they are.
FetchFailed(task) ==
    /\ FetchReturns(task, NULL)
    /\ UNCHANGED <<sessionVars, channelVars, lobbies>>

\* lines 571-579: the customer has no conversation
FetchFoundNone(task) ==
    /\ setMessages(getDefaultGreeting(config, settings, NoOverrides, now))
    /\ lobbies' = Append(lobbies, task.customerId)
    /\ FetchReturns(task, NULL)
    /\ UNCHANGED <<customerId, conversationId, settings, storage, channelVars>>

\* lines 581-596: the customer's latest conversation is srvConvs[k]
FetchFound(task, k) ==
    \E listed \in ResponseOrders(srvConvs[k].messages) :
       LET id == ConversationIdPool[k]
           jn == joinConversationChannel(channel, joined, id)
       IN /\ conversationId' = id
          /\ channel' = jn[1]
          /\ joined' = jn[2]
          /\ setMessages(ConversationTranscript(config, settings, listed, now))
          /\ FetchReturns(task, id)
          /\ UNCHANGED <<customerId, settings, storage, lobbies>>

\* API.fetchCustomerConversations settles for the i-th fetchLatestConversation
\* in flight
fetchLatestConversation_settles(i, outcome) ==
    /\ i \in 1..Len(fetches)
    /\ LET task == fetches[i]
           k == LatestConversation(srvConvs, task.customerId)
       IN /\ fetches' = RemoveAt(fetches, i)
          /\ IF outcome = "error" THEN FetchFailed(task)
             ELSE IF k = 0 THEN FetchFoundNone(task)
             ELSE FetchFound(task, k)
    /\ UNCHANGED <<config, observed, socketVars, sends, lobbyEvents, timers,
                   serverVars, now>>

(* ---------------------------- sendNewMessage --------------------------- *)
\* the message arguments tried: a body and whether file_ids is non-empty
Inputs ==
    {[body |-> "a", file_ids |-> FALSE], [body |-> "b", file_ids |-> FALSE],
     [body |-> "", file_ids |-> FALSE], [body |-> " ", file_ids |-> FALSE]}

\* the code compares bodies for equality only, so "b" is tried only after "a"
Tried(input, earlier) ==
    input.body = "b" => \E j \in 1..Len(earlier) : earlier[j].payload.body = "a"

\* body.trim()
trim(body) == IF body = " " THEN "" ELSE body

\* a validation that does not trim the body
isInvalidMessage_NoTrim(input) == input.body = "" /\ ~input.file_ids

\* lines 426-429
isInvalidMessage(input) ==
    LET isMissingBody == input.body = "" \/ trim(input.body) = ""
        isMissingAttachments == ~input.file_ids
    IN isMissingBody /\ isMissingAttachments

\* lines 439-445: the optimistic message
Payload(input, customer, clock) ==
    Message("customer", input.body, input.file_ids, customer,
            toISOString(clock), NoTime, NoTime)

\* a send that shows its message only once the backend has confirmed it
OptimisticUpdate_Deferred(transcript, payload) == transcript

\* line 448, the optimistic update: the transcript handed to setMessages
\* before initializeNewConversation is called
OptimisticUpdate(transcript, payload) == Append(transcript, payload)

\* lines 456-461: the payload of channel.push('shout', ...)
Shout(chan, payload, customer) ==
    [topic |-> chan.topic, body |-> payload.body, file_ids |-> payload.file_ids,
     customer_id |-> customer, sent_at |-> payload.sent_at]

\* this.channel?.push: what the call issues (nothing without a channel)
IssuedPush(chan, payload, customer) ==
    IF chan = NoChannel THEN <<>> ELSE <<Shout(chan, payload, customer)>>

\* the pushes on their way to the backend after it: a push on a channel that
\* is not joined, or on a closed socket, never leaves the client
PushShout(queue, chan, jnd, conn, issued) ==
    IF chan \in jnd /\ conn THEN queue \o issued ELSE queue

\* sendNewMessage with an invalid message: line 432, it returns (the caller
\* sees the promise resolve at once)
sendNewMessage_invalid(input) ==
    /\ startTask.pc # "idle"
    /\ ~tornDown
    /\ isInvalidMessage(input)
    /\ observed' = [observed EXCEPT !.returned = TRUE]
    /\ UNCHANGED <<config, sessionVars, channelVars, socketVars, startTask,
                   sends, fetches, lobbyVars, serverVars, now>>

\* a send that starts no creation of its own while the creation of an
\* earlier send is pending
sendNewMessage_JoinsCreation(input) ==
    /\ startTask.pc # "idle"
    /\ ~tornDown
    /\ ~isInvalidMessage(input)
    /\ Tried(input, sends)
    /\ Len(sends) < MaxSends
    /\ LET payload == Payload(input, customerId, now)
           creating == \E j \in 1..Len(sends) :
                          sends[j].pc \in {"customer", "retry", "conversation"}
           create == (Falsy(customerId) \/ Falsy(conversationId)) /\ ~creating
           issued == IF create THEN <<>>
                     ELSE IssuedPush(channel, payload, customerId)
       IN /\ setMessages(OptimisticUpdate(messages, payload))
          /\ sends' = Append(sends,
                             [pc |-> IF create THEN "customer" ELSE "done",
                              payload |-> payload,
                              existing |-> customerId,
                              customer |-> NULL,
                              calls |-> IF create THEN 1 ELSE 0,
                              push |-> issued])
          /\ pushes' = PushShout(pushes, channel, joined, connected, issued)
    /\ UNCHANGED <<config, observed, customerId, conversationId, settings,
                   storage, channelVars, socketVars, startTask, fetches,
                   lobbyVars, srvConvs, srvCustomers, srvFmt, shouts, now>>

\* sendNewMessage with a valid message, up to its first await (or to its end,
\* when the customer and the conversation are both known)
sendNewMessage(input) ==
    /\ startTask.pc # "idle"
    /\ ~tornDown
    /\ ~isInvalidMessage(input)
    /\ Tried(input, sends)
    /\ Len(sends) < MaxSends
    /\ LET payload == Payload(input, customerId, now)
           create == Falsy(customerId) \/ Falsy(conversationId)
           issued == IF create THEN <<>>
                     ELSE IssuedPush(channel, payload, customerId)
       IN /\ setMessages(OptimisticUpdate(messages, payload))
          /\ sends' = Append(sends,
                             [pc |-> IF create THEN "customer" ELSE "done",
                              payload |-> payload,
                              existing |-> customerId,
                              customer |-> NULL,
                              calls |-> IF create THEN 1 ELSE 0,
                              push |-> issued])
          /\ pushes' = PushShout(pushes, channel, joined, connected, issued)
    /\ UNCHANGED <<config, observed, customerId, conversationId, settings, storage,
                   channelVars, socketVars, startTask, fetches, lobbyVars,
                   srvConvs, srvCustomers, srvFmt, shouts, now>>

\* the backend creates a customer: the id it gives
NewCustomer(i) ==
    /\ srvCustomers < Len(CustomerIdPool)
    /\ srvCustomers' = srvCustomers + 1
    /\ sends' = [sends EXCEPT ![i].pc = "conversation",
                              ![i].customer = CustomerIdPool[srvCustomers + 1]]

\* createOrUpdateCustomer, lines 277-283: the first attempt of the i-th send
\* settles (updateCustomerMetadata for an existing id, else createNewCustomer)
send_createOrUpdateCustomer(i, outcome) ==
    /\ i \in 1..Len(sends)
    /\ sends[i].pc = "customer"
    /\ IF outcome = "error"
       THEN /\ sends' = [sends EXCEPT ![i].pc = "retry", ![i].calls = @ + 1]
            /\ UNCHANGED srvCustomers
       ELSE IF ~Falsy(sends[i].existing)
       THEN /\ sends' = [sends EXCEPT ![i].pc = "conversation",
                                      ![i].customer = sends[i].existing]
            /\ UNCHANGED srvCustomers
       ELSE NewCustomer(i)
    /\ UNCHANGED <<config, observed, sessionVars, channelVars, socketVars, startTask,
                   fetches, lobbyVars, srvConvs, srvFmt, pushes, shouts, now>>

\* a retry that tries once more when it fails
send_retryCreateNewCustomer_Again(i, outcome) ==
    /\ i \in 1..Len(sends)
    /\ sends[i].pc = "retry"
    /\ IF outcome = "error"
       THEN /\ sends' = [sends EXCEPT ![i].calls = @ + 1]
            /\ UNCHANGED srvCustomers
       ELSE NewCustomer(i)
    /\ UNCHANGED <<config, observed, sessionVars, channelVars, socketVars,
                   startTask, fetches, lobbyVars, srvConvs, srvFmt, pushes,
                   shouts, now>>

\* createOrUpdateCustomer, lines 284-294: the retry (createNewCustomer) settles
send_retryCreateNewCustomer(i, outcome) ==
    /\ i \in 1..Len(sends)
    /\ sends[i].pc = "retry"
    /\ IF outcome = "error"
       THEN /\ sends' = [sends EXCEPT ![i].pc = "rejected"]
            /\ UNCHANGED srvCustomers
       ELSE NewCustomer(i)
    /\ UNCHANGED <<config, observed, sessionVars, channelVars, socketVars, startTask,
                   fetches, lobbyVars, srvConvs, srvFmt, pushes, shouts, now>>

\* the 'conversation:created' events the backend sends for a new conversation:
\* one to each lobby channel of the customer
RECURSIVE LobbyEventsFor(_, _)
LobbyEventsFor(lbs, customer) ==
    IF lbs = <<>> THEN <<>>
    ELSE (IF Head(lbs) = customer THEN <<customer>> ELSE <<>>)
         \o LobbyEventsFor(Tail(lbs), customer)

\* a send that catches the failure of the creation and goes on to its push
send_createNewConversation_Swallowed(i, outcome) ==
    /\ i \in 1..Len(sends)
    /\ sends[i].pc = "conversation"
    /\ IF outcome = "error"
       THEN LET issued == IssuedPush(channel, sends[i].payload, customerId)
            IN /\ sends' = [sends EXCEPT ![i].pc = "done", ![i].push = issued]
               /\ pushes' = PushShout(pushes, channel, joined, connected, issued)
               /\ UNCHANGED <<sessionVars, channelVars, lobbyEvents, srvConvs,
                              observed>>
       ELSE LET cid == sends[i].customer
                id == ConversationIdPool[Len(srvConvs) + 1]
                jn == joinConversationChannel(channel, joined, id)
                issued == IssuedPush(jn[1], sends[i].payload, cid)
            IN /\ Len(srvConvs) < Len(ConversationIdPool)
               /\ srvConvs' = Append(srvConvs,
                                     [customer |-> cid, messages |-> <<>>])
               /\ lobbyEvents' = IF connected
                                 THEN lobbyEvents \o LobbyEventsFor(lobbies, cid)
                                 ELSE lobbyEvents
               /\ setCustomerId(cid)
               /\ conversationId' = id
               /\ channel' = jn[1]
               /\ joined' = jn[2]
               /\ sends' = [sends EXCEPT ![i].pc = "done", ![i].push = issued]
               /\ pushes' = PushShout(pushes, jn[1], jn[2], connected, issued)
               /\ UNCHANGED <<messages, handed, settings>>
    /\ UNCHANGED <<config, socketVars, startTask, fetches, lobbies, timers,
                   srvCustomers, srvFmt, shouts, now>>

\* API.createNewConversation settles for the i-th send; on success
\* initializeNewConversation ends with setCustomerId(customerId)
\* .setConversationId(conversationId) and sendNewMessage with the push
send_createNewConversation(i, outcome) ==
    /\ i \in 1..Len(sends)
    /\ sends[i].pc = "conversation"
    /\ IF outcome = "error"
       THEN /\ sends' = [sends EXCEPT ![i].pc = "rejected"]
            /\ UNCHANGED <<sessionVars, channelVars, lobbyEvents, srvConvs,
                           pushes, observed>>
       ELSE LET cid == sends[i].customer
                id == ConversationIdPool[Len(srvConvs) + 1]
                jn == joinConversationChannel(channel, joined, id)
                issued == IssuedPush(jn[1], sends[i].payload, cid)
            IN /\ Len(srvConvs) < Len(ConversationIdPool)
               /\ srvConvs' = Append(srvConvs,
                                     [customer |-> cid, messages |-> <<>>])
               /\ lobbyEvents' = IF connected
                                 THEN lobbyEvents \o LobbyEventsFor(lobbies, cid)
                                 ELSE lobbyEvents
               /\ setCustomerId(cid)
               /\ conversationId' = id
               /\ channel' = jn[1]
               /\ joined' = jn[2]
               /\ sends' = [sends EXCEPT ![i].pc = "done", ![i].push = issued]
               /\ pushes' = PushShout(pushes, jn[1], jn[2], connected, issued)
               /\ UNCHANGED <<messages, handed, settings>>
    /\ UNCHANGED <<config, socketVars, startTask, fetches, lobbies, timers,
                   srvCustomers, srvFmt, shouts, now>>

(* ---------------------------- the backend and the socket --------------- *)
\* the backend prints a sent_at in its own format
Echoed(sentAt, fmt) == [ms |-> sentAt.ms, fmt |-> fmt]

\* the backend's clock is its own: every message it stores gets a creation
\* timestamp later than those it stored before
RECURSIVE LatestCreatedAt(_)
LatestCreatedAt(ms) ==
    IF ms = <<>> THEN 2
    ELSE LET rest == LatestCreatedAt(Tail(ms))
         IN IF Head(ms).created_at > rest THEN Head(ms).created_at ELSE rest

RECURSIVE AllMessages(_)
AllMessages(convs) ==
    IF convs = <<>> THEN <<>>
    ELSE Head(convs).messages \o AllMessages(Tail(convs))

ServerNow == LatestCreatedAt(AllMessages(srvConvs)) + 1

AgentBody == "hi"

\* the messages an agent has written in this session
AgentMessages ==
    UNION {{<<k, j>> : j \in {n \in 1..Len(srvConvs[k].messages) :
                                srvConvs[k].messages[n].body = AgentBody}} :
           k \in 1..Len(srvConvs)}

\* the backend takes the next 'shout' push: it stores the message with a
\* creation timestamp and broadcasts it on the conversation's topic
server_shout ==
    /\ pushes # <<>>
    /\ LET p == Head(pushes)
           k == ConversationIndex(p.topic)
           m == Message("customer", p.body, p.file_ids, p.customer_id,
                        Echoed(p.sent_at, srvFmt), ServerNow, NoTime)
       IN /\ srvConvs' = [srvConvs EXCEPT ![k].messages = Append(@, m)]
          /\ shouts' = Append(shouts, [topic |-> p.topic, message |-> m])
    /\ pushes' = Tail(pushes)
    /\ UNCHANGED <<config, observed, sessionVars, channelVars, socketVars, startTask,
                   sends, fetches, lobbyVars, srvCustomers, srvFmt, now>>

\* the channels whose 'shout' handler a broadcast on the topic reaches
Receivers(topic) ==
    IF connected THEN {c \in joined : c.topic = topic} ELSE {}

\* an agent answers in conversation k, one the customer has joined: stored
\* and broadcast like a 'shout'
server_agentMessage(k) ==
    /\ Cardinality(AgentMessages) < MaxAgent
    /\ k \in 1..Len(srvConvs)
    /\ Receivers(ConversationIdPool[k]) # {}
    /\ LET m == Message("agent", AgentBody, FALSE, NULL,
                        Echoed(toISOString(ServerNow), srvFmt), ServerNow,
                        NoTime)
       IN /\ srvConvs' = [srvConvs EXCEPT ![k].messages = Append(@, m)]
          /\ shouts' = Append(shouts, [topic |-> ConversationIdPool[k],
                                       message |-> m])
    /\ UNCHANGED <<config, observed, sessionVars, channelVars, socketVars, startTask,
                   sends, fetches, lobbyVars, srvCustomers, srvFmt, pushes, now>>

\* the 'shout' handler of each joined channel of the topic, one after the other
RECURSIVE Handle(_, _, _)
Handle(transcript, message, n) ==
    IF n = 0 THEN transcript
    ELSE Handle(handleMessageCreated(transcript, message), message, n - 1)

\* a 'shout' broadcast reaches the client: lines 199-202 for every joined
\* channel of its topic; it is lost when there is none or the socket is closed
channel_shout ==
    /\ shouts # <<>>
    /\ LET e == Head(shouts)
       IN IF Receivers(e.topic) = {}
          THEN UNCHANGED <<messages, handed>>
          ELSE setMessages(Handle(messages, e.message,
                                  Cardinality(Receivers(e.topic))))
    /\ shouts' = Tail(shouts)
    /\ UNCHANGED <<config, observed, customerId, conversationId, settings, storage,
                   channelVars, socketVars, startTask, sends, fetches,
                   lobbyVars, srvConvs, srvCustomers, srvFmt, pushes, now>>

\* a 'conversation:created' event reaches its lobby channel: lines 165-170,
\* the handler starts the timer of the re-resolution
lobby_conversationCreated ==
    /\ lobbyEvents # <<>>
    /\ lobbyEvents' = Tail(lobbyEvents)
    /\ timers' = IF connected THEN Append(timers, Head(lobbyEvents)) ELSE timers
    /\ UNCHANGED <<config, observed, sessionVars, channelVars, socketVars, startTask,
                   sends, fetches, lobbies, serverVars, now>>

\* the timer fires: fetchLatestConversation(customerId) up to its await
timer_fetchLatestConversation ==
    /\ timers # <<>>
    /\ timers' = Tail(timers)
    /\ fetches' = Append(fetches,
                         [customerId |-> OrElse(customerId, Head(timers)),
                          origin |-> "timer"])
    /\ UNCHANGED <<config, observed, sessionVars, channelVars, socketVars, startTask,
                   sends, lobbies, lobbyEvents, serverVars, now>>

\* a request, an event or a timer of the session is pending
InFlight ==
    \/ startTask.pc \in {"settings", "validate", "lookup"}
    \/ fetches # <<>>
    \/ lobbyEvents # <<>>
    \/ timers # <<>>
    \/ \E i \in 1..Len(sends) : sends[i].pc \in {"customer", "retry", "conversation"}

\* disconnect(): socket.disconnect() and this.channel?.leave(); called while
\* something is pending (a later call changes nothing that is observed)
disconnect ==
    /\ InFlight
    /\ ~tornDown
    /\ connected' = FALSE
    /\ tornDown' = TRUE
    /\ joined' = joined \ {channel}
    /\ UNCHANGED <<config, observed, sessionVars, channel, startTask, sends, fetches,
                   lobbyVars, serverVars, now>>

\* a millisecond passes; time that no new Date() of a send has read is not
\* told apart, so the clock moves once a send has read it
tick ==
    /\ now < 2 + MaxClock
    /\ \E i \in 1..Len(sends) : sends[i].payload.sent_at.ms = now
    /\ now' = now + 1
    /\ UNCHANGED <<config, observed, sessionVars, channelVars, socketVars, startTask,
                   sends, fetches, lobbyVars, serverVars>>

(* ---------------------------- specification ---------------------------- *)
Outcomes == {"ok", "error"}

\* what fetchWidgetSettings may give: the backend's settings, or the empty
\* record after a failure
FetchedSettings == ServerSettings \cup {EmptySettings}

\* The session of a returning customer: start() with a backend that answers
\* the settings fetch, sends, the backend's echoes, an agent's message, the
\* lobby events and the re-resolutions they trigger.
Next ==
    \/ start
    \/ \E stg \in ServerSettings : start_fetchWidgetSettings(stg)
    \/ \E outcome \in {"true", "false", "error"} : start_isValidCustomer(outcome)
    \/ \E i \in 1..Len(fetches), outcome \in Outcomes :
          fetchLatestConversation_settles(i, outcome)
    \/ \E input \in Inputs : sendNewMessage(input)
    \/ \E i \in 1..Len(sends), outcome \in Outcomes :
          send_createOrUpdateCustomer(i, outcome)
    \/ \E i \in 1..Len(sends), outcome \in Outcomes :
          send_retryCreateNewCustomer(i, outcome)
    \/ \E i \in 1..Len(sends), outcome \in Outcomes :
          send_createNewConversation(i, outcome)
    \/ server_shout
    \/ \E k \in 1..Len(ConversationIdPool) : server_agentMessage(k)
    \/ channel_shout
    \/ lobby_conversationCreated
    \/ timer_fetchLatestConversation
    \/ tick

Spec == Init /\ [][Next]_vars

\* Startup and teardown: start() for every configuration and cached id, with
\* every backend call failing or not, and disconnect() while a call is pending.
InitStart ==
    Constructed(InitialIdentities, {NULL, "ext"}, {<<>>, <<PriorConversation>>},
                {"srv"})

NextStart ==
    \/ start
    \/ \E stg \in FetchedSettings : start_fetchWidgetSettings(stg)
    \/ \E outcome \in {"true", "false", "error"} : start_isValidCustomer(outcome)
    \/ \E outcome \in {"c1", "c2", NULL, "error"} :
          start_findCustomerByExternalId(outcome)
    \/ \E i \in 1..Len(fetches), outcome \in Outcomes :
          fetchLatestConversation_settles(i, outcome)
    \/ disconnect

SpecStart == InitStart /\ [][NextStart]_vars

\* Sending: a fresh session and the session of a returning customer, start()
\* and sends with a valid and with an invalid message, every creation call
\* failing or not. The pushes stay on their way to the backend.
InitSend ==
    Constructed({<<NULL, NULL>>, <<NULL, "c1">>}, {NULL},
                {<<>>, <<PriorConversation>>}, {"srv"})

NextSend ==
    \/ start
    \/ \E stg \in ServerSettings : start_fetchWidgetSettings(stg)
    \/ \E outcome \in {"true", "false", "error"} : start_isValidCustomer(outcome)
    \/ \E i \in 1..Len(fetches), outcome \in Outcomes :
          fetchLatestConversation_settles(i, outcome)
    \/ \E input \in Inputs : sendNewMessage_invalid(input)
    \/ \E input \in Inputs : sendNewMessage(input)
    \/ \E i \in 1..Len(sends), outcome \in Outcomes :
          send_createOrUpdateCustomer(i, outcome)
    \/ \E i \in 1..Len(sends), outcome \in Outcomes :
          send_retryCreateNewCustomer(i, outcome)
    \/ \E i \in 1..Len(sends), outcome \in Outcomes :
          send_createNewConversation(i, outcome)

SpecSend == InitSend /\ [][NextSend]_vars

\* The greeting policy: a session without a customer, for every configured
\* and fetched greeting, away message and working-hours status, in which
\* fetchLatestConversation() is called again and again as time passes.
OptionalTexts(text) == {NULL, "", text}

InitGreeting ==
    /\ config \in [customerId : {NULL}, external_id : {NULL},
                   greeting : OptionalTexts("welcome"),
                   awayMessage : OptionalTexts("gone")]
    /\ settings \in [greeting : OptionalTexts("hello"),
                     away_message : OptionalTexts("away"),
                     outside : BOOLEAN]
    /\ storage = NULL
    /\ customerId = NULL
    /\ conversationId = NULL
    /\ messages = <<>>
    /\ channel = NoChannel
    /\ joined = {}
    /\ connected = TRUE
    /\ tornDown = FALSE
    /\ startTask = StartSettled("resolved", NULL)
    /\ sends = <<>>
    /\ fetches = <<>>
    /\ lobbies = <<>>
    /\ lobbyEvents = <<>>
    /\ timers = <<>>
    /\ srvConvs = <<>>
    /\ srvCustomers = 2
    /\ srvFmt = "srv"
    /\ pushes = <<>>
    /\ shouts = <<>>
    /\ now = 3
    /\ handed = NotHanded
    /\ observed = [cached |-> NULL, dispatched |-> <<>>,
                   onSetCustomerId |-> <<>>, returned |-> FALSE]

\* fetchLatestConversation() without a customer id, lines 557-563: the
\* transcript is set to the greeting default
fetchLatestConversation_noCustomer ==
    /\ Falsy(customerId)
    /\ setMessages(getDefaultGreeting(config, settings, NoOverrides, now))
    /\ UNCHANGED <<config, observed, customerId, conversationId, settings,
                   storage, channelVars, socketVars, startTask, sends, fetches,
                   lobbyVars, serverVars, now>>

\* a millisecond passes
clock_passes ==
    /\ now < 2 + MaxClock
    /\ now' = now + 1
    /\ UNCHANGED <<config, observed, sessionVars, channelVars, socketVars,
                   startTask, sends, fetches, lobbyVars, serverVars>>

NextGreeting ==
    \/ fetchLatestConversation_noCustomer
    \/ clock_passes

SpecGreeting == InitGreeting /\ [][NextGreeting]_vars

(* ---------------------------- reconciliation: C1 - C3 ------------------ *)
\* a step in which a 'shout' reaches the handler of the joined channel
DeliveredShout == channel_shout /\ Receivers(Head(shouts).topic) # {}

\* the bodies match, two absent bodies included
BodiesMatch(m, e) == m.body = e.body \/ (m.body = "" /\ e.body = "")

\* the pending entries of a transcript that an event matches
MatchingPending(transcript, e) ==
    {i \in 1..Len(transcript) :
        /\ isPending(transcript[i])
        /\ Timestamp(transcript[i].sent_at) = Timestamp(e.sent_at)
        /\ BodiesMatch(transcript[i], e)}

Occurrences(transcript, e) == {i \in 1..Len(transcript) : transcript[i] = e}

\* C1: when the transcript holds two pending customer messages with the same
\* send timestamp and different non-empty bodies and a confirmed event matches
\* one of them, the other pending message stays in the transcript unchanged.
C1_OtherPendingKept ==
    [][DeliveredShout =>
          \A p, q \in 1..Len(messages) :
             (/\ p \in MatchingPending(messages, Head(shouts).message)
              /\ isPending(messages[q])
              /\ messages[q].sent_at = messages[p].sent_at
              /\ messages[q].body # messages[p].body
              /\ messages[p].body # ""
              /\ messages[q].body # "")
             => (q <= Len(messages') /\ messages'[q] = messages[q])]_vars

\* C2: when some pending entry matches the confirmed event (same send
\* timestamp, matching body), the transcript keeps its length, the event
\* stands at the position of the pending entry, and it occurs exactly once.
C2_ReplacedInPlaceOnce ==
    [][(DeliveredShout /\ MatchingPending(messages, Head(shouts).message) # {})
          => /\ Len(messages') = Len(messages)
             /\ \A p \in MatchingPending(messages, Head(shouts).message) :
                   messages'[p] = Head(shouts).message
             /\ Cardinality(Occurrences(messages', Head(shouts).message)) = 1
       ]_vars

\* C3: a confirmed event that matches no pending entry is appended as the
\* last entry: the length grows by one and the earlier entries are unchanged.
C3_AppendedWhenNoMatch ==
    [][(DeliveredShout /\ MatchingPending(messages, Head(shouts).message) = {})
          => messages' = Append(messages, Head(shouts).message)]_vars

\* C3's case has happened: an agent's message was appended behind a message
\* that is still pending
C3_Witness ==
    /\ Len(messages) >= 2
    /\ messages[Len(messages)].type = "agent"
    /\ messages[Len(messages)].body = AgentBody
    /\ \E i \in 1..(Len(messages) - 1) : isPending(messages[i])

(* ---------------------------- one entry per message: C4, C7 ------------ *)
\* a transcript entry is the pending or the confirmed form of a sent message
EntryOf(m, payload) ==
    /\ m.type = "customer"
    /\ m.body = payload.body
    /\ Timestamp(m.sent_at) = Timestamp(payload.sent_at)

EntriesOf(transcript, payload) ==
    {j \in 1..Len(transcript) : EntryOf(transcript[j], payload)}

\* the sends of one and the same body at one and the same millisecond
SendsLike(payload) ==
    {k \in 1..Len(sends) : EntryOf(sends[k].payload, payload)}

\* C4: in every reachable state the transcript holds at most one entry for
\* each message the customer sent: never its pending and its confirmed form
\* together, never its confirmed form twice.
C4_OneEntryPerMessage ==
    \A i \in 1..Len(sends) :
       Cardinality(EntriesOf(messages, sends[i].payload))
          <= Cardinality(SendsLike(sends[i].payload))

\* C7: once sendNewMessage has appended a message, every transcript handed to
\* the caller afterwards still contains it, pending or confirmed.
C7_TranscriptNeverRegresses ==
    \A i \in 1..Len(sends) : EntriesOf(handed, sends[i].payload) # {}

(* ---------------------------- one joined channel: C5 ------------------- *)
\* C5: at any time the session has at most one joined conversation channel,
\* the one this.channel refers to: every setConversationId leaves the channel
\* joined before it joins the new one.
C5_AtMostOneJoinedChannel ==
    /\ Cardinality(joined) <= 1
    /\ joined \subseteq {channel}

\* C5's case has happened: two sends have each created a conversation and
\* joined its channel, the second join after the first
C5_Witness ==
    \E i, j \in 1..Len(sends) :
       /\ sends[i].push # <<>>
       /\ sends[j].push # <<>>
       /\ sends[i].push[1].topic # sends[j].push[1].topic
       /\ joined = {channel}

(* ---------------------------- the first send: C8 ----------------------- *)
\* C8: a valid sendNewMessage in a session without a customer id or without a
\* conversation id appends the pending message and hands the transcript to
\* the caller by the time its first backend call is pending; and when the
\* customer and the conversation have been created, both ids are set and one
\* 'shout' was pushed with the body and the send timestamp of the pending
\* message.
C8_OptimisticThenPushed ==
    [][/\ \A input \in Inputs :
            (sendNewMessage(input)
                /\ (Falsy(customerId) \/ Falsy(conversationId)))
            => /\ sends'[Len(sends')].pc = "customer"
               /\ messages' = Append(messages, Payload(input, customerId, now))
               /\ handed' = messages'
       /\ \A i \in 1..Len(sends) :
            send_createNewConversation(i, "ok")
            => /\ ~Falsy(customerId')
               /\ ~Falsy(conversationId')
               /\ Len(sends'[i].push) = 1
               /\ sends'[i].push[1].body = sends[i].payload.body
               /\ sends'[i].push[1].sent_at = sends[i].payload.sent_at
               /\ sends'[i].push[1].topic = conversationId'
      ]_vars

\* C8's case has happened: a send that had to create the customer has pushed
\* its message after the creations
C8_Witness ==
    \E i \in 1..Len(sends) :
       /\ Falsy(sends[i].existing)
       /\ sends[i].pc = "done"
       /\ ~Falsy(sends[i].customer)
       /\ Len(sends[i].push) = 1
       /\ ~Falsy(customerId)
       /\ ~Falsy(conversationId)

(* ---------------------------- startup and teardown: C6, C9, C10 -------- *)
\* C6: start() never rejects, whichever backend calls fail.
C6_StartNeverRejects == startTask.pc # "rejected"

\* C9: after disconnect() the completion of a request or timer that was
\* pending changes neither the customer id, the conversation id nor the
\* transcript, and joins no channel.
C9_NoOpAfterDisconnect ==
    [][tornDown => /\ customerId' = customerId
                   /\ conversationId' = conversationId
                   /\ messages' = messages
                   /\ joined' = joined]_vars

\* C10: when the fetch of the customer's conversations fails, the error does
\* not leave fetchLatestConversation, no conversation id is set, and the
\* transcript is set to the greeting default.
C10_FetchFailureGivesGreeting ==
    [][\A i \in 1..Len(fetches) :
          fetchLatestConversation_settles(i, "error")
          => /\ startTask'.pc # "rejected"
             /\ conversationId' = conversationId
             /\ messages' = getDefaultGreeting(config, settings, NoOverrides, now)
      ]_vars

(* ---------------------------- chronological order: C11 ----------------- *)
\* C11: whenever every transcript entry is confirmed (has a creation
\* timestamp), the entries are in non-decreasing order of creation timestamp.
C11_ChronologicalWhenConfirmed ==
    (\A i \in 1..Len(messages) : ~isPending(messages[i]))
    => \A i \in 1..(Len(messages) - 1) :
          messages[i].created_at <= messages[i + 1].created_at

(* ---------------------------- invalid sends: C12 ----------------------- *)
\* a body that is empty or made of whitespace only
Blank(body) == body \in {"", " "}

\* a step of sendNewMessage called with the input
SendCalled(input) == sendNewMessage_invalid(input) \/ sendNewMessage(input)

\* C12: sendNewMessage with an empty or whitespace-only body and no
\* attachment ids is a no-op: transcript, customer id, conversation id and
\* channel are unchanged, nothing is handed to the messages-updated callback,
\* no backend call is made and nothing is pushed.
C12_InvalidSendIsNoOp ==
    [][\A input \in Inputs :
          (Blank(input.body) /\ ~input.file_ids /\ SendCalled(input))
          => UNCHANGED <<messages, handed, customerId, conversationId, storage,
                         channel, joined, sends, fetches, pushes, srvCustomers,
                         srvConvs>>
      ]_vars

\* C12's case has happened: an invalid send has returned in a session that
\* has a transcript and a channel, and no message was ever sent
C12_Witness ==
    /\ observed.returned
    /\ sends = <<>>
    /\ messages # <<>>
    /\ joined # {}

(* ---------------------------- setCustomerId: C17 ----------------------- *)
Last(s) == s[Len(s)]

\* C17: every setCustomerId(x) stores x, caches x (clears the cache when x is
\* null) and fires the global notification and the configured callback once
\* each with x; the stored and the cached id are those of the last call.
C17_SetCustomerId ==
    [][LET log == observed.dispatched
           log2 == observed'.dispatched
       IN /\ observed'.onSetCustomerId = log2
          /\ log2 # log
             => /\ Len(log2) = Len(log) + 1
                /\ SubSeq(log2, 1, Len(log)) = log
          /\ log2 # <<>>
             => /\ customerId' = Last(log2)
                /\ storage' = IF Last(log2) = NULL THEN NULL ELSE Last(log2)
          /\ \A i \in 1..Len(sends) :
                send_createNewConversation(i, "ok")
                => log2 = Append(log, sends[i].customer)
          /\ (startTask.pc \in {"settings", "validate", "lookup"}
                /\ startTask'.pc \in {"fetch", "resolved"})
             => Len(log2) = Len(log) + 1
      ]_vars

\* C17's case has happened: setCustomerId was called by start() and again by
\* a send, with another id, while a backend call of another send is pending
C17_Witness ==
    /\ Len(observed.dispatched) >= 2
    /\ observed.dispatched[1] # Last(observed.dispatched)
    /\ customerId = Last(observed.dispatched)
    /\ \E i \in 1..Len(sends) : sends[i].pc \in {"customer", "conversation"}

(* ---------------------------- customer creation: C20 ------------------- *)
\* C20: when the first attempt of createOrUpdateCustomer fails, exactly one
\* further customer-creation call is made; its success gives the new
\* customer's id, its failure is surfaced to the caller; one invocation never
\* makes more than two backend customer calls.
C20_RetriedExactlyOnce ==
    [][/\ \A i \in 1..Len(sends') : sends'[i].calls <= 2
       /\ \A i \in 1..Len(sends) :
            /\ send_createOrUpdateCustomer(i, "error")
               => sends'[i].pc = "retry" /\ sends'[i].calls = 2
            /\ send_retryCreateNewCustomer(i, "ok")
               => /\ sends'[i].pc = "conversation"
                  /\ sends'[i].calls = 2
                  /\ sends'[i].customer = CustomerIdPool[srvCustomers']
                  /\ srvCustomers' = srvCustomers + 1
            /\ send_retryCreateNewCustomer(i, "error")
               => sends'[i].pc = "rejected" /\ sends'[i].calls = 2
      ]_vars

\* C20's case has happened: the update of an existing customer failed, the
\* one retry created a customer, and the send went on with the new id
C20_Witness ==
    \E i \in 1..Len(sends) :
       /\ sends[i].calls = 2
       /\ sends[i].pc = "done"
       /\ ~Falsy(sends[i].existing)
       /\ sends[i].customer # sends[i].existing

(* ---------------------------- concurrent sends: C19 -------------------- *)
\* the creation round-trip of a send is pending
Creating(send) == send.pc \in {"customer", "retry", "conversation"}

\* C19: a sendNewMessage issued without a conversation id while the creation
\* round-trip of an earlier send is pending starts a creation of its own, and
\* each creation that succeeds makes a conversation: two conversation-create
\* calls can be pending for the one session.
C19_EachSendCreates ==
    [][/\ \A input \in Inputs :
            (/\ sendNewMessage(input)
             /\ Falsy(conversationId)
             /\ \E j \in 1..Len(sends) : Creating(sends[j]))
            => /\ Creating(sends'[Len(sends')])
               /\ sends'[Len(sends')].calls = 1
       /\ \A i \in 1..Len(sends) :
            send_createNewConversation(i, "ok")
            => srvConvs' = Append(srvConvs, [customer |-> sends[i].customer,
                                             messages |-> <<>>])
      ]_vars

\* C19's case has happened: two conversation-create calls of the one session
\* are pending at once
C19_Witness ==
    \E i, j \in 1..Len(sends) :
       /\ i # j
       /\ sends[i].pc = "conversation"
       /\ sends[j].pc = "conversation"
       /\ Falsy(conversationId)

(* ---------------------------- identity at start: C13 - C15 ------------- *)
\* a well-formed unique identifier
WellFormed(id) == id \in Range(CustomerIdPool)

\* the candidate id that isValidCustomerId has left start() with: the
\* argument of checkForExistingCustomer
Validated ==
    IF startTask.pc = "lookup" THEN startTask.arg ELSE customerId

\* C13: an absent or malformed customer id is invalid and the backend
\* validation call is not made for it; a well-formed id is sent to the
\* backend and is valid exactly when the backend confirms it, except that it
\* is valid when the validation call fails.
C13_IsValidCustomerId ==
    [][/\ \A stg \in FetchedSettings :
            start_fetchWidgetSettings(stg)
            => IF WellFormed(customerId)
               THEN startTask'.pc = "validate" /\ startTask'.arg = customerId
               ELSE startTask'.pc # "validate" /\ Validated' = NULL
       /\ \A outcome \in {"true", "false", "error"} :
            start_isValidCustomer(outcome)
            => Validated' = IF outcome = "false" THEN NULL ELSE customerId
      ]_vars

\* C13's case has happened: the validation call of a well-formed id has
\* settled and the id is the candidate of the lookup
C13_Witness ==
    /\ startTask.pc = "lookup"
    /\ WellFormed(startTask.arg)

\* C14: without an external identifier start() applies the candidate
\* unchanged; with one it applies the customer the lookup found, also when it
\* differs from the candidate, and null when the lookup found none.
C14_CheckForExistingCustomer ==
    [][/\ (/\ Falsy(config.external_id)
           /\ startTask.pc \in {"settings", "validate"}
           /\ startTask'.pc \in {"fetch", "resolved"})
          => \/ /\ startTask.pc = "settings"
                /\ customerId' = IF WellFormed(customerId) THEN customerId
                                                           ELSE NULL
             \/ /\ startTask.pc = "validate"
                /\ customerId' \in {customerId, NULL}
       /\ (~Falsy(config.external_id) /\ startTask.pc \in {"settings", "validate"})
          => startTask'.pc \notin {"fetch", "resolved"}
       /\ \A found \in {"c1", "c2", NULL} :
            start_findCustomerByExternalId(found)
            => /\ customerId' = found
               /\ Last(observed'.dispatched) = found
      ]_vars

\* C14's case has happened: the lookup found a customer other than the
\* candidate and start() applied it
C14_Witness ==
    /\ ~Falsy(config.external_id)
    /\ observed.cached = "c1"
    /\ config.customerId = NULL
    /\ startTask.pc \in {"fetch", "resolved"}
    /\ customerId = "c2"

\* no configured customer id, no cached id, no customer metadata
Fresh ==
    /\ config.customerId = NULL
    /\ observed.cached = NULL
    /\ Falsy(config.external_id)

\* C15: for a fresh session start() makes no customer-create and no
\* conversation-create call and joins no conversation channel, and it
\* resolves with no conversation, the transcript equal to the greeting
\* default, customer id null and conversation id null.
C15_FreshSession ==
    [][Fresh
       => /\ srvCustomers' = srvCustomers
          /\ srvConvs' = srvConvs
          /\ joined' = {}
          /\ channel' = NoChannel
          /\ startTask'.pc \in {"idle", "settings", "resolved"}
          /\ (startTask.pc = "settings" /\ startTask'.pc = "resolved")
             => /\ startTask'.result = NULL
                /\ messages' = getDefaultGreeting(config, settings',
                                                  NoOverrides, now)
                /\ handed' = messages'
                /\ customerId' = NULL
                /\ conversationId' = NULL
      ]_vars

\* C15's case has happened: start() of a fresh session has resolved and the
\* greeting is shown
C15_Witness ==
    /\ Fresh
    /\ startTask.pc = "resolved"
    /\ messages # <<>>
    /\ customerId = NULL

(* ---------------------------- a conversation from before: C16 ---------- *)
\* the entries are in ascending order of creation timestamp
Ascending(ms) ==
    \A i \in 1..(Len(ms) - 1) : ms[i].created_at <= ms[i + 1].created_at

\* C16: when start() finds the customer's latest conversation, whatever the
\* order in which the backend lists its messages, the conversation id is set
\* to it and the transcript is the greeting default followed by the
\* conversation's messages in ascending creation-time order, the greeting's
\* creation and seen timestamps being the creation timestamp of the earliest
\* message.
C16_PriorConversation ==
    [][\A i \in 1..Len(fetches) :
          LET k == LatestConversation(srvConvs, fetches[i].customerId)
          IN (/\ fetchLatestConversation_settles(i, "ok")
              /\ fetches[i].origin = "start"
              /\ k # 0)
             => LET stored == srvConvs[k].messages
                    earliest == CHOOSE t \in {m.created_at : m \in Range(stored)} :
                                   \A m \in Range(stored) : t <= m.created_at
                    greeting == getDefaultGreeting(config, settings,
                                                   Overrides(earliest, earliest),
                                                   now)
                    rest == SubSeq(messages', Len(greeting) + 1, Len(messages'))
                IN /\ conversationId' = ConversationIdPool[k]
                   /\ startTask'.pc = "resolved"
                   /\ startTask'.result = ConversationIdPool[k]
                   /\ SubSeq(messages', 1, Len(greeting)) = greeting
                   /\ Len(rest) = Len(stored)
                   /\ Range(rest) = Range(stored)
                   /\ Ascending(rest)
                   /\ \A j \in 1..Len(greeting) :
                         /\ messages'[j].created_at = rest[1].created_at
                         /\ messages'[j].seen_at = rest[1].created_at
      ]_vars

\* C16's case has happened: start() has resolved with the conversation from
\* before, the greeting ahead of its two messages
C16_Witness ==
    /\ startTask.pc = "resolved"
    /\ startTask.result = "v1"
    /\ conversationId = "v1"
    /\ Len(messages) = 3
    /\ messages[1].type = "bot"

(* ---------------------------- the greeting policy: C18 ----------------- *)
\* a text is present
Present(text) == text # NULL /\ text # ""

\* the configured text, or else the fetched one
Chosen(configured, fetched) == IF Present(configured) THEN configured ELSE fetched

\* the greeting policy's choice: no message without a greeting and an away
\* message, else one bot message with the away message outside working hours
\* and the greeting otherwise
PolicyHolds(result) ==
    LET greeting == Chosen(config.greeting, settings.greeting)
        awayMessage == Chosen(config.awayMessage, settings.away_message)
    IN IF ~Present(greeting) /\ ~Present(awayMessage)
       THEN result = <<>>
       ELSE /\ Len(result) = 1
            /\ result[1].type = "bot"
            /\ result[1].customer_id = "bot"
            /\ result[1].body = IF Present(awayMessage) /\ settings.outside
                                THEN awayMessage ELSE greeting

\* C18: getDefaultGreeting returns the empty sequence without a greeting and
\* an away message, otherwise exactly one bot message with customer id "bot"
\* whose body is the away message when it is non-empty and the account is
\* outside working hours, and the greeting otherwise; and it returns the same
\* sequence for the same inputs.
C18_GreetingPolicy ==
    [][fetchLatestConversation_noCustomer
       => /\ PolicyHolds(messages')
          /\ handed # NotHanded => messages' = handed
      ]_vars

(* ---------------------------- customer and conversation: C21 ----------- *)
\* the customer the backend holds the conversation for
OwnerOf(conversation) == srvConvs[ConversationIndex(conversation)].customer

\* C21: whenever the conversation id is non-null, the conversation is one of
\* the session's current customer id (it was fetched or created for that
\* customer), under any interleaving of start() with sendNewMessage.
C21_ConversationOfCustomer ==
    conversationId # NULL => OwnerOf(conversationId) = customerId

(* ---------------------------- a creation that fails: C22 --------------- *)
\* the creation of the i-th send fails: the retry of the customer call
\* rejects, or createNewConversation rejects
CreationFails(i) ==
    \/ send_retryCreateNewCustomer(i, "error")
    \/ send_createNewConversation(i, "error")

\* a step of the i-th send's creation that does not complete it
CreationGoesOn(i) ==
    /\ Creating(sends[i])
    /\ sends'[i] # sends[i]
    /\ sends'[i].pc # "done"

\* C22: when the customer or conversation creation inside sendNewMessage fails
\* (the retry included), the call rejects; the send leaves customer id,
\* conversation id and channel as they were, from its call to its rejection;
\* no 'shout' push is issued for the message, then or later; the optimistic
\* message stays in the transcript as a pending entry.
C22_FailedCreation ==
    [][/\ \A input \in Inputs :
            sendNewMessage(input)
            => UNCHANGED <<customerId, conversationId, storage, channel, joined>>
       /\ \A i \in 1..Len(sends) :
            /\ CreationGoesOn(i)
               => UNCHANGED <<customerId, conversationId, storage, channel,
                              joined, pushes, messages>>
            /\ CreationFails(i)
               => /\ sends'[i].pc = "rejected"
                  /\ sends'[i].push = <<>>
                  /\ pushes' = pushes
                  /\ \A k \in 1..Len(messages) :
                        messages[k] = sends[i].payload
                        => messages'[k] = sends[i].payload /\ isPending(messages'[k])
            /\ sends[i].pc = "rejected" => sends'[i] = sends[i]
      ]_vars

\* C22's case has happened, both ways: one send was rejected when the retry
\* of the customer call failed, another when the conversation call failed
\* after its customer had been created; the session has no customer id, no
\* conversation and no channel as before them, and both messages are pending
\* in the transcript
C22_Witness ==
    \E i, j \in 1..Len(sends) :
       /\ sends[i].pc = "rejected" /\ sends[i].calls = 2
       /\ sends[i].customer = NULL
       /\ sends[j].pc = "rejected" /\ sends[j].customer # NULL
       /\ sends[i].push = <<>> /\ sends[j].push = <<>>
       /\ pushes = <<>>
       /\ Falsy(customerId) /\ Falsy(sends[i].existing) /\ Falsy(sends[j].existing)
       /\ conversationId = NULL
       /\ channel = NoChannel
       /\ \E k, l \in 1..Len(messages) :
             /\ k # l
             /\ messages[k] = sends[i].payload /\ isPending(messages[k])
             /\ messages[l] = sends[j].payload /\ isPending(messages[l])

====
